---- MODULE Spec2Model ----
(***************************************************************************)
(* A model of the LightWave Object (LWO2) exporter io_export_lwo.py.       *)
(*                                                                         *)
(* Byte strings (Python bytes, io.BytesIO contents, files on disk) are     *)
(* sequences of integers 0..255.  Text strings (Python str) are sequences  *)
(* of Unicode code points; bytes(s, 'UTF-8') is the operator UTF8.         *)
(* Floats are the integers the model's meshes use; struct.pack(">f", x)    *)
(* is the operator F32, which computes the IEEE-754 single of an integer.  *)
(***************************************************************************)
EXTENDS Integers, Sequences, FiniteSets, TLC

VARIABLES
    objects,         \* context.selected_objects (a sequence of object records)
    option_batch,    \* LwoExport.option_batch
    option_subd,     \* LwoExport.option_subd
    pc,              \* position of the operator inside execute()/write()
    runs,            \* number of execute() calls made so far
    objdups,         \* write(): objdups, the duplicated mesh objects, sorted by name
    meshes,          \* self.meshes: indices into objdups
    objIdx,          \* write(): position of the loop "for obj in objdups"
    filename,        \* write(): the local variable filename
    material_names,  \* write(): the Tag Table of the file being generated
    tags,            \* write(): tags, a record [isStr, data]
    surfs,           \* write(): surfs
    chunks,          \* write(): chunks
    meshdata,        \* write(): the BytesIO meshdata, a record [closed, data]
    disk,            \* the file system: file name :> bytes of the file
    err,             \* the exception that ended execute(), or "none"
    arg,             \* argument of the helper function under test
    res              \* result of the helper function under test

vars == <<objects, option_batch, option_subd, pc, runs, objdups, meshes, objIdx,
          filename, material_names, tags, surfs, chunks, meshdata, disk, err,
          arg, res>>

exportVars == <<objects, option_batch, option_subd, runs, objdups, meshes,
                objIdx, filename, material_names, tags, surfs, chunks, meshdata,
                disk, err>>

-----------------------------------------------------------------------------
(* Bounds of the model.                                                    *)

MaxObjects == 2      \* selected objects per scene
MaxPolys == 2        \* polygons per mesh in the export scenes
MaxRuns == 2         \* execute() calls per behaviour
MaxStrLen == 3       \* characters per name given to generate_nstring
MaxSmallIndex == 40  \* indices 0..MaxSmallIndex given to generate_vx
MaxNear == 12        \* distance from a width boundary of the indices given to generate_vx

-----------------------------------------------------------------------------
(* Sequences and bytes.                                                    *)

RECURSIVE Flatten(_)
Flatten(ss) == IF ss = <<>> THEN <<>> ELSE Head(ss) \o Flatten(Tail(ss))

RECURSIVE SumLen(_)
SumLen(ss) == IF ss = <<>> THEN 0 ELSE Len(Head(ss)) + SumLen(Tail(ss))

RECURSIVE Pow2(_)
Pow2(n) == IF n = 0 THEN 1 ELSE 2 * Pow2(n - 1)

RECURSIVE Log2(_)
Log2(n) == IF n < 2 THEN 0 ELSE 1 + Log2(n \div 2)

\* a | b on 8-bit values
RECURSIVE BitOr(_, _, _)
BitOr(a, b, bits) ==
    IF bits = 0 THEN 0
    ELSE (IF (a % 2 = 1) \/ (b % 2 = 1) THEN 1 ELSE 0)
         + 2 * BitOr(a \div 2, b \div 2, bits - 1)

\* struct.pack(">H", n) and struct.pack(">h", n) for 0 <= n < 2^15
U16(n) == <<n \div 256, n % 256>>

\* struct.pack(">L", n) for 0 <= n < 2^31
U32(n) == <<n \div 16777216, (n \div 65536) % 256, (n \div 256) % 256, n % 256>>

\* struct.pack(">f", x) for an integer x with |x| < 2^24
F32(x) ==
    IF x = 0 THEN <<0, 0, 0, 0>>
    ELSE LET m    == IF x < 0 THEN -x ELSE x
             e    == Log2(m)
             E    == e + 127
             mant == (m - Pow2(e)) * Pow2(23 - e)
             sign == IF x < 0 THEN 128 ELSE 0
         IN  <<sign + (E \div 2), (E % 2) * 128 + (mant \div 65536),
               (mant \div 256) % 256, mant % 256>>

\* struct.pack(">f", x) of the decimal literals of the source
F32_0_9 == <<63, 102, 102, 102>>
F32_0_8 == <<63, 76, 204, 205>>
F32_0_4 == <<62, 204, 204, 205>>
F32_0_2 == <<62, 76, 204, 205>>

\* bytes(s, 'UTF-8') of one code point (surrogates excluded)
UTF8Char(c) ==
    IF c < 128 THEN <<c>>
    ELSE IF c < 2048 THEN <<192 + (c \div 64), 128 + (c % 64)>>
    ELSE IF c < 65536
         THEN <<224 + (c \div 4096), 128 + ((c \div 64) % 64), 128 + (c % 64)>>
    ELSE <<240 + (c \div 262144), 128 + ((c \div 4096) % 64),
           128 + ((c \div 64) % 64), 128 + (c % 64)>>

\* bytes(s, 'UTF-8')
RECURSIVE UTF8(_)
UTF8(s) == IF s = <<>> THEN <<>> ELSE UTF8Char(Head(s)) \o UTF8(Tail(s))

\* the ASCII tags of the format
TagFORM == <<70, 79, 82, 77>>
TagLWO2 == <<76, 87, 79, 50>>
TagTAGS == <<84, 65, 71, 83>>
TagLAYR == <<76, 65, 89, 82>>
TagPNTS == <<80, 78, 84, 83>>
TagBBOX == <<66, 66, 79, 88>>
TagVMAD == <<86, 77, 65, 68>>
TagPOLS == <<80, 79, 76, 83>>
TagPTAG == <<80, 84, 65, 71>>
TagCLIP == <<67, 76, 73, 80>>
TagSURF == <<83, 85, 82, 70>>
TagRGBA == <<82, 71, 66, 65>>
TagTXUV == <<84, 88, 85, 86>>
TagFACE == <<70, 65, 67, 69>>
TagSUBD == <<83, 85, 66, 68>>
TagCOLR == <<67, 79, 76, 82>>
TagDIFF == <<68, 73, 70, 70>>
TagLUMI == <<76, 85, 77, 73>>
TagSPEC == <<83, 80, 69, 67>>
TagGLOS == <<71, 76, 79, 83>>
TagVCOL == <<86, 67, 79, 76>>
TagSMAN == <<83, 77, 65, 78>>

-----------------------------------------------------------------------------
(* LWO export helper functions.                                            *)

\* generate_nstring: pads by the number of characters of the string
generate_nstring(string) ==
    IF Len(string) % 2 = 0 THEN string \o <<0, 0>> ELSE string \o <<0>>

\* bytes(generate_nstring(name), 'UTF-8'): a name as it is stored in the file
StoredName(name) == UTF8(generate_nstring(name))

\* write_chunk: what it appends to dest_file
write_chunk(name, data) == name \o U32(Len(data)) \o data

\* write_header: what it writes
write_header_nochunkhdr(chunklist) ==
    TagFORM \o U32(SumLen(chunklist) + 4) \o TagLWO2

write_header(chunklist) ==
    LET total_chunk_size == SumLen(chunklist)
        form_size        == total_chunk_size + Len(chunklist) * 8 + 4
    IN  TagFORM \o U32(form_size) \o TagLWO2

\* generate_vx for 0 <= index < 2^31
generate_vx_threshold(index) ==
    IF index < 65535
    THEN U16(index)
    ELSE <<BitOr(index \div 16777216, 255, 8), (index \div 65536) % 256,
           (index \div 256) % 256, index % 256>>

generate_vx(index) ==
    IF index < 65280
    THEN U16(index)
    ELSE <<BitOr(index \div 16777216, 255, 8), (index \div 65536) % 256,
           (index \div 256) % 256, index % 256>>

-----------------------------------------------------------------------------
(* The host's data: names, materials, meshes, objects.                     *)

NameA == <<65>>                  \* material "A"
NameB == <<66>>                  \* material "B"
NameCol == <<67, 111, 108>>      \* vertex-color layer "Col"
NameUVMap == <<85, 86, 77, 97, 112>>  \* UV layer "UVMap"
NameNone == <<60, 110, 111, 110, 101, 62>>  \* "<none>", the default of Material.vcmenu

\* DEFAULT_NAME = "Blender Default"
DEFAULT_NAME == <<66, 108, 101, 110, 100, 101, 114, 32, 68, 101, 102, 97, 117, 108, 116>>

\* an empty material slot (None in mesh.materials); Blender allows no empty name
None == <<>>

\* bpy.data.materials.get(name): "A" has the properties generate_mesh_surface
\* reads, "B" and every other material lack one of them (the access raises).
\* The numbers are floats with integer values.
MaterialData(name) ==
    IF name = NameA
    THEN [legacy |-> TRUE, diffuse_color |-> <<1, 0, 1>>, diffuse_intensity |-> 1,
          emit |-> 0, specular_intensity |-> 1, specular_hardness |-> 404,
          vcmenu |-> NameCol]
    ELSE [legacy |-> FALSE, diffuse_color |-> <<1, 1, 1>>, diffuse_intensity |-> 0,
          emit |-> 0, specular_intensity |-> 0, specular_hardness |-> 4,
          vcmenu |-> NameNone]

\* math.sqrt on the perfect squares the model meets
Sqrt(n) == CHOOSE r \in 0..n : r * r = n

\* p.loop_indices of a polygon
loop_indices(p) == [k \in 1..Len(p.vertices) |-> p.loop_start + k - 1]

\* layer.data[loop]: loops are numbered from 0
LoopData(layer, loop) == layer.data[loop + 1]

\* every edge taken to belong to no face
LinkFaces_nofaces(mesh, e) == 0

\* len(e.link_faces) of generate_pols: the polygons that use edge e
LinkFaces(mesh, e) ==
    Cardinality({i \in 1..Len(mesh.polygons) :
        LET vs == mesh.polygons[i].vertices
            n  == Len(vs)
        IN  \E k \in 1..n :
                {vs[k], vs[(k % n) + 1]} = {e[1], e[2]}})

\* list.index(x): position of the first occurrence, counted from 0; -1 models
\* the ValueError of an absent value
Index(list, x) ==
    IF \E i \in 1..Len(list) : list[i] = x
    THEN (CHOOSE i \in 1..Len(list) :
            list[i] = x /\ \A j \in 1..(i - 1) : list[j] # x) - 1
    ELSE -1

-----------------------------------------------------------------------------
(* Attribute block generators.                                             *)

\* generate_vertex_colors
generate_vertex_colors(mesh) ==
    LET Block(layer) ==
            TagRGBA \o U16(4) \o StoredName(layer.name) \o
            Flatten([f \in 1..Len(mesh.polygons) |->
                LET face == mesh.polygons[f]
                IN  Flatten([k \in 1..Len(face.vertices) |->
                        LET c == LoopData(layer, loop_indices(face)[k])
                        IN  generate_vx(face.vertices[k]) \o generate_vx(f - 1) \o
                            F32(c[1]) \o F32(c[2]) \o F32(c[3]) \o F32(c[4])])])
        found == \E f \in 1..Len(mesh.polygons) : Len(mesh.polygons[f].vertices) > 0
    IN  IF found
        THEN [l \in 1..Len(mesh.vertex_colors) |-> Block(mesh.vertex_colors[l])]
        ELSE <<>>

\* the sub-blocks both surface generators share: tag, u16 length, float, u16 0
SubBlockF(tag, f32) == tag \o U16(6) \o f32 \o U16(0)

\* generate_mesh_surface
generate_mesh_surface(mesh, material_name) ==
    LET material == MaterialData(material_name)
        ok    == material_name # None /\ material.legacy
        c     == material.diffuse_color
        colr  == IF ok THEN F32(c[1]) \o F32(c[2]) \o F32(c[3])
                       ELSE F32(1) \o F32(1) \o F32(1)
        diff  == IF ok THEN F32(material.diffuse_intensity) ELSE F32(1)
        lumi  == IF ok THEN F32(material.emit) ELSE F32(0)
        spec  == IF ok THEN F32(material.specular_intensity) ELSE F32_0_2
        gloss == IF ok THEN F32(Sqrt((material.specular_hardness - 4) \div 400))
                       ELSE F32(0)
        sman  == IF ok /\ mesh.use_auto_smooth THEN F32(mesh.auto_smooth_angle)
                       ELSE F32(0)
        vcol  == IF ok /\ material.vcmenu # NameNone
                 THEN LET data_tmp == F32(1) \o U16(0) \o TagRGBA \o
                                      StoredName(material.vcmenu)
                      IN  TagVCOL \o U16(Len(data_tmp)) \o data_tmp
                 ELSE <<>>
    IN  StoredName(material_name) \o
        TagCOLR \o U16(0) \o
        TagCOLR \o U16(14) \o colr \o U16(0) \o
        SubBlockF(TagDIFF, diff) \o
        SubBlockF(TagLUMI, lumi) \o
        SubBlockF(TagSPEC, spec) \o
        SubBlockF(TagGLOS, gloss) \o
        vcol \o
        TagSMAN \o U16(4) \o sman

\* generate_default_surf(self): the block it builds when it is given its argument
generate_default_surf ==
    StoredName(DEFAULT_NAME) \o
    TagCOLR \o U16(14) \o F32_0_9 \o F32_0_9 \o F32_0_9 \o U16(0) \o
    SubBlockF(TagDIFF, F32_0_8) \o
    SubBlockF(TagLUMI, F32(0)) \o
    SubBlockF(TagSPEC, F32_0_4) \o
    SubBlockF(TagGLOS, F32_0_4)

\* LwoExport.generate_surface: generate_default_surf() is called without the
\* argument its definition requires, which raises TypeError
generate_surface(mesh, name) ==
    IF name = DEFAULT_NAME
    THEN [err |-> "TypeError", data |-> <<>>]
    ELSE [err |-> "none", data |-> generate_mesh_surface(mesh, name)]

\* LwoExport.get_used_material_names; ms is the sequence of the objects whose
\* meshes are self.meshes, and matmeshes holds positions in ms.  self.LWO_VCOLOR_MATERIAL and
\* self.LWO_DEFAULT_MATERIAL are set nowhere: reading them raises AttributeError.
RECURSIVE UsedNames(_, _)
UsedNames(ms, i) ==
    IF i > Len(ms) THEN [err |-> "none", matmeshes |-> <<>>, matnames |-> <<>>]
    ELSE LET mesh == ms[i].data
         IN  IF Len(mesh.materials) = 0
             THEN [err       |-> IF Len(mesh.vertex_colors) > 0
                                 THEN "AttributeError:LWO_VCOLOR_MATERIAL"
                                 ELSE "AttributeError:LWO_DEFAULT_MATERIAL",
                   matmeshes |-> <<>>, matnames |-> <<>>]
             ELSE LET own  == SelectSeq(mesh.materials, LAMBDA m : m # None)
                      rest == UsedNames(ms, i + 1)
                  IN  [err       |-> rest.err,
                       matmeshes |-> [k \in 1..Len(own) |-> i] \o rest.matmeshes,
                       matnames  |-> own \o rest.matnames]

get_used_material_names(ms) == UsedNames(ms, 1)

\* LwoExport.generate_tags: a str, not bytes, when the table is empty
generate_tags(names) ==
    IF Len(names) > 0
    THEN [isStr |-> FALSE, data |-> Flatten([k \in 1..Len(names) |-> StoredName(names[k])])]
    ELSE [isStr |-> TRUE, data |-> generate_nstring(<<>>)]

\* name.replace(old, new) for one-character old and new
Replace(s, old, new) == [k \in 1..Len(s) |-> IF s[k] = old THEN new ELSE s[k]]

\* LwoExport.generate_layr; location is the pivot of the object of that name
generate_layr(name, location, idx) ==
    U16(idx) \o U16(0) \o
    F32(location[1]) \o F32(location[3]) \o F32(location[2]) \o
    StoredName(Replace(Replace(name, 32, 95), 46, 95))

\* LwoExport.generate_pnts
generate_pnts(mesh, scale) ==
    Flatten([i \in 1..Len(mesh.vertices) |->
        LET co == mesh.vertices[i]
        IN  F32(co[1] * scale) \o F32(co[3] * scale) \o F32(co[2] * scale)])

Min(S) == CHOOSE x \in S : \A y \in S : x <= y
Max(S) == CHOOSE x \in S : \A y \in S : x >= y

\* LwoExport.generate_bbox
generate_bbox(mesh, scale) ==
    LET nv == mesh.vertices
        xx == IF Len(nv) > 0 THEN {nv[i][1] * scale : i \in 1..Len(nv)} ELSE {0}
        yy == IF Len(nv) > 0 THEN {nv[i][2] * scale : i \in 1..Len(nv)} ELSE {0}
        zz == IF Len(nv) > 0 THEN {nv[i][3] * scale : i \in 1..Len(nv)} ELSE {0}
    IN  F32(Min(xx)) \o F32(Min(zz)) \o F32(Min(yy)) \o
        F32(Max(xx)) \o F32(Max(zz)) \o F32(Max(yy))

\* the corner test of generate_vmad_uv: the neighbours of position k (1-based)
\* of a polygon with n corners in searchl = loop_indices + loop_indices; Python's
\* searchl[-1] is the last element
UVSkip_nowrap(l, p, k) ==
    LET li == loop_indices(p)
        n  == Len(li)
        prevl == IF k = 1 THEN li[1] ELSE li[k - 1]
        nextl == IF k = n THEN li[n] ELSE li[k + 1]
    IN  LoopData(l, prevl) = LoopData(l, li[k]) /\ LoopData(l, li[k]) = LoopData(l, nextl)

UVSkip(l, p, k) ==
    LET li      == loop_indices(p)
        searchl == li \o li
        pos     == Index(searchl, li[k])
        prevl   == IF pos = 0 THEN searchl[Len(searchl)] ELSE searchl[pos]
        nextl   == searchl[pos + 2]
        youv    == LoopData(l, li[k])
    IN  LoopData(l, prevl) = youv /\ youv = LoopData(l, nextl)

\* LwoExport.generate_vmad_uv
generate_vmad_uv(mesh) ==
    LET Entries(l) ==
            Flatten([i \in 1..Len(mesh.polygons) |->
                LET p == mesh.polygons[i]
                IN  Flatten([k \in 1..Len(p.vertices) |->
                        IF UVSkip(l, p, k) THEN <<>>
                        ELSE LET youv == LoopData(l, loop_indices(p)[k])
                             IN  generate_vx(p.vertices[k]) \o generate_vx(i - 1) \o
                                 F32(youv[1]) \o F32(youv[2])])])
        Block(l) == TagTXUV \o U16(2) \o StoredName(l.name) \o Entries(l)
        kept == SelectSeq(mesh.uv_layers, LAMBDA l : Entries(l) # <<>>)
    IN  [k \in 1..Len(kept) |-> Block(kept[k])]

\* the polygon entry of generate_pols
PolEntry_forward(p) ==
    U16(Len(p.vertices)) \o
    Flatten([j \in 1..Len(p.vertices) |-> generate_vx(p.vertices[j])])

PolEntry(p) ==
    LET numfaceverts == Len(p.vertices)
    IN  U16(numfaceverts) \o
        Flatten([j \in 1..numfaceverts |->
                    generate_vx(p.vertices[numfaceverts + 1 - j])])

\* LwoExport.generate_pols
generate_pols(mesh, subd) ==
    (IF subd THEN TagSUBD ELSE TagFACE) \o
    Flatten([i \in 1..Len(mesh.polygons) |-> PolEntry(mesh.polygons[i])]) \o
    Flatten([e \in 1..Len(mesh.edges) |->
        IF LinkFaces(mesh, mesh.edges[e]) = 0
        THEN U16(2) \o generate_vx(mesh.edges[e][1]) \o generate_vx(mesh.edges[e][2])
        ELSE <<>>])

\* the exception generate_ptag raises at a polygon, or "none"
PtagError(mesh, poly, names) ==
    IF Len(mesh.materials) = 0 THEN "none"
    ELSE IF poly.material_index >= Len(mesh.materials) THEN "IndexError:generate_ptag"
    ELSE IF mesh.materials[poly.material_index + 1] = None
         THEN "AttributeError:generate_ptag"
    ELSE IF Index(names, mesh.materials[poly.material_index + 1]) < 0
         THEN "ValueError:generate_ptag"
    ELSE "none"

\* LwoExport.generate_ptag: the block, or the first exception a polygon raises
generate_ptag(mesh, names) ==
    LET polys == mesh.polygons
        bad   == {i \in 1..Len(polys) : PtagError(mesh, polys[i], names) # "none"}
        Entry(i) ==
            LET poly == polys[i]
                surfindex ==
                    IF Len(mesh.materials) > 0
                    THEN Index(names, mesh.materials[poly.material_index + 1])
                    ELSE 0
            IN  generate_vx(i - 1) \o U16(surfindex)
    IN  IF bad # {}
        THEN [err |-> PtagError(mesh, polys[Min(bad)], names), data |-> <<>>]
        ELSE [err |-> "none",
              data |-> TagSURF \o Flatten([i \in 1..Len(polys) |-> Entry(i)])]

-----------------------------------------------------------------------------
(* LwoExport.write: the body of the loop "for i, mesh in enumerate(meshes)". *)

option_scale == 1    \* the default of LwoExport.option_scale

\* the layer number of the i-th mesh (i from 1): layer_index starts at 0 and
\* is incremented at the end of each iteration
LayerIndex_stuck(i) == 0

LayerIndex(i) == i - 1

\* the surfaces the iteration for the i-th mesh appends to surfs
MeshSurfs(ms, i, used) ==
    LET mine == SelectSeq([j \in 1..Len(used.matnames) |-> j],
                          LAMBDA j : used.matmeshes[j] = i)
    IN  [k \in 1..Len(mine) |-> generate_surface(ms[i].data, used.matnames[mine[k]])]

\* lines 517-532 of write(): the order in which the blocks of a mesh are
\* written to meshdata and appended to chunks, as records [name, data]
LayerOrder_vmadlast(layr, pnts, bbox, vcs, pols, ptag, uvs) ==
    <<[name |-> TagLAYR, data |-> layr], [name |-> TagPNTS, data |-> pnts],
      [name |-> TagBBOX, data |-> bbox]>> \o
    <<[name |-> TagPOLS, data |-> pols], [name |-> TagPTAG, data |-> ptag]>> \o
    [k \in 1..Len(vcs) |-> [name |-> TagVMAD, data |-> vcs[k]]] \o
    [k \in 1..Len(uvs) |-> [name |-> TagVMAD, data |-> uvs[k]]]

LayerOrder(layr, pnts, bbox, vcs, pols, ptag, uvs) ==
    <<[name |-> TagLAYR, data |-> layr], [name |-> TagPNTS, data |-> pnts],
      [name |-> TagBBOX, data |-> bbox]>> \o
    [k \in 1..Len(vcs) |-> [name |-> TagVMAD, data |-> vcs[k]]] \o
    <<[name |-> TagPOLS, data |-> pols], [name |-> TagPTAG, data |-> ptag]>> \o
    [k \in 1..Len(uvs) |-> [name |-> TagVMAD, data |-> uvs[k]]]

\* lines 508-532 of write(): the chunks of the i-th mesh
LayerChunks(ms, i, used, subd) ==
    LayerOrder(generate_layr(ms[i].name, ms[i].location, LayerIndex(i)),
               generate_pnts(ms[i].data, option_scale),
               generate_bbox(ms[i].data, option_scale),
               generate_vertex_colors(ms[i].data),
               generate_pols(ms[i].data, subd),
               generate_ptag(ms[i].data, used.matnames).data,
               generate_vmad_uv(ms[i].data))

\* the exception the iteration for the i-th mesh raises, or "none"
LayerError(ms, i, used) ==
    LET ss    == MeshSurfs(ms, i, used)
        ptag  == generate_ptag(ms[i].data, used.matnames)
    IN  IF \E k \in 1..Len(ss) : ss[k].err # "none"
        THEN "TypeError:generate_surface"
        ELSE IF ptag.err # "none" THEN ptag.err
        ELSE "none"

\* the surfaces that the iteration for the i-th mesh has appended to surfs when
\* it ends or raises: those before the first generate_surface call that raises
AppendedSurfs(ms, i, used) ==
    LET ss    == MeshSurfs(ms, i, used)
        fails == {k \in 1..Len(ss) : ss[k].err # "none"}
        n     == IF fails = {} THEN Len(ss) ELSE Min(fails) - 1
    IN  [k \in 1..n |-> ss[k].data]

\* lines 488-539 of write() for the meshes ms: the exception raised, if any,
\* and the values of material_names, tags, surfs, chunks and meshdata when the
\* lines end or raise.  get_used_material_names (line 488) raises before any
\* of them is bound (bound FALSE); generate_surface (line 507) and
\* generate_ptag (line 512) raise in the iteration of the first mesh at fault,
\* with the chunks of the meshes before it appended and written to meshdata.
GenerateChunks(ms, subd) ==
    LET used   == get_used_material_names(ms)
        bad    == {i \in 1..Len(ms) : LayerError(ms, i, used) # "none"}
        done   == IF bad = {} THEN Len(ms) ELSE Min(bad) - 1
        layers == Flatten([i \in 1..done |-> LayerChunks(ms, i, used, subd)])
        tg     == generate_tags(used.matnames)
        sf     == Flatten([i \in 1..done |-> AppendedSurfs(ms, i, used)]) \o
                  (IF bad = {} THEN <<>> ELSE AppendedSurfs(ms, done + 1, used))
        clips  == <<>>
    IN  IF used.err # "none"
        THEN [err |-> used.err, bound |-> FALSE]
        ELSE [err            |-> IF bad = {} THEN "none"
                                 ELSE LayerError(ms, done + 1, used),
              bound          |-> TRUE,
              material_names |-> used.matnames,
              tags           |-> tg,
              surfs          |-> sf,
              meshdata       |-> Flatten([k \in 1..Len(layers) |->
                                     write_chunk(layers[k].name, layers[k].data)]),
              chunks         |-> <<tg.data>> \o [k \in 1..Len(layers) |-> layers[k].data]
                                 \o (IF bad = {} THEN clips \o sf ELSE <<>>)]

-----------------------------------------------------------------------------
(* File names.                                                             *)

Ext == <<46, 108, 119, 111>>     \* ".lwo"
Sep == <<47>>                    \* os.sep
FilePath == <<100, 47, 111>>     \* self.filepath: "d/o"

\* str.lower() on the ASCII letters
Lower(s) == [k \in 1..Len(s) |-> IF s[k] >= 65 /\ s[k] <= 90 THEN s[k] + 32 ELSE s[k]]

\* s.endswith(t)
EndsWith(s, t) == Len(s) >= Len(t) /\ SubSeq(s, Len(s) - Len(t) + 1, Len(s)) = t

\* os.path.dirname (posixpath)
dirname(path) ==
    LET slashes == {k \in 1..Len(path) : path[k] = 47}
        i       == IF slashes = {} THEN 0 ELSE Max(slashes)
        head    == SubSeq(path, 1, i)
        keep    == {k \in 1..Len(head) : head[k] # 47}
    IN  IF keep = {} THEN head ELSE SubSeq(head, 1, Max(keep))

\* lines 542-546 of write(): the name of the output file
OutputName(fname, batch, objname) ==
    LET f == IF batch THEN dirname(fname) \o Sep \o Replace(objname, 46, 95) ELSE fname
    IN  IF EndsWith(Lower(f), Ext) THEN f ELSE f \o Ext

-----------------------------------------------------------------------------
(* The scenes of the model.                                                *)

MaxMats == 2         \* material slots per mesh

\* position of vertex i: distinct points with small integer coordinates
Coord(i) == <<i, i % 2, -(i \div 2)>>

\* A mesh of n triangles in a strip (polygon j uses vertices j-1, j, j+1, its
\* loops are 3(j-1)..3(j-1)+2), with material list mats, material_index midx[j]
\* for polygon j, optionally one edge that belongs to no polygon, and the
\* layers attr names: "uv" a UV layer with seams, "uvflat" a UV layer whose
\* corners all coincide, "vcol" a vertex-color layer, "both" = "uv" and "vcol".
MkMesh(n, mats, midx, attr, loose) ==
    LET nv    == IF n = 0 THEN 0 ELSE n + 2
        strip == [i \in 1..(IF nv = 0 THEN 0 ELSE nv - 1) |-> <<i - 1, i>>] \o
                 [i \in 1..(IF nv = 0 THEN 0 ELSE nv - 2) |-> <<i - 1, i + 1>>]
    IN  [vertices   |-> [i \in 1..(nv + (IF loose THEN 2 ELSE 0)) |-> Coord(i - 1)],
         polygons   |-> [j \in 1..n |->
                          [vertices       |-> IF j % 2 = 1 THEN <<j - 1, j, j + 1>>
                                                           ELSE <<j, j - 1, j + 1>>,
                           loop_start     |-> 3 * (j - 1),
                           material_index |-> midx[j]]],
         edges      |-> strip \o (IF loose THEN <<<<nv, nv + 1>>>> ELSE <<>>),
         materials  |-> mats,
         uv_layers  |-> IF attr \in {"uv", "both"}
                        THEN <<[name |-> NameUVMap,
                                data |-> [l \in 1..(3 * n) |-> <<(l - 1) % 2, 0>>]]>>
                        ELSE IF attr = "uvflat"
                        THEN <<[name |-> NameUVMap,
                                data |-> [l \in 1..(3 * n) |-> <<0, 0>>]]>>
                        ELSE <<>>,
         vertex_colors |-> IF attr \in {"vcol", "both"}
                           THEN <<[name |-> NameCol,
                                   data |-> [l \in 1..(3 * n) |-> <<1, (l - 1) % 2, 0, 1>>]]>>
                           ELSE <<>>,
         use_auto_smooth   |-> attr # "none",
         auto_smooth_angle |-> 1]

Slots == {None, NameA, NameB, DEFAULT_NAME}

SeqsUpTo(S, n) == UNION {[1..k -> S] : k \in 0..n}

MaterialLists == SeqsUpTo(Slots, MaxMats)

Attrs == {"none", "vcol", "uv", "uvflat", "both"}

\* one-polygon meshes over every material list and every material_index up to
\* one past the list, and polygon-less meshes over every material list
MaterialMeshes ==
    {MkMesh(1, mats, <<mi>>, "none", FALSE) :
        mats \in MaterialLists, mi \in 0..MaxMats} \cup
    {MkMesh(0, mats, <<>>, "none", FALSE) : mats \in MaterialLists}

\* meshes of 0..MaxPolys polygons with every combination of layers and loose edge
GeometryMeshes ==
    {MkMesh(n, <<NameA>>, [j \in 1..n |-> 0], attr, loose) :
        n \in 0..MaxPolys, attr \in Attrs, loose \in BOOLEAN} \cup
    {MkMesh(1, <<>>, <<0>>, attr, FALSE) : attr \in Attrs}

\* the meshes of the scenes of several objects
SharedMeshes ==
    {MkMesh(1, <<NameA>>, <<0>>, "none", FALSE),
     MkMesh(1, <<NameB>>, <<0>>, "vcol", FALSE),
     MkMesh(MaxPolys, <<NameB, NameA>>, [j \in 1..MaxPolys |-> j % 2], "both", TRUE),
     MkMesh(1, <<>>, <<0>>, "none", FALSE),
     MkMesh(0, <<None>>, <<>>, "none", FALSE)}

\* object names: "a d", "b.c", "b_c"
ObjNames == <<<<97, 32, 100>>, <<98, 46, 99>>, <<98, 95, 99>>>>

MkObject(n, m) == [name |-> n, location |-> <<1, 2, -3>>, data |-> m]

\* the names of k selected objects: k consecutive names of ObjNames, cyclically
\* from position r, so that selections come sorted and unsorted
SelectedNames(r, k) == [i \in 1..k |-> ObjNames[((r + i - 2) % Len(ObjNames)) + 1]]

\* context.selected_objects: mesh objects with distinct names
MultiScenes ==
    UNION {{[i \in 1..k |-> MkObject(SelectedNames(r, k)[i], ms[i])] :
                r \in 1..Len(ObjNames), ms \in [1..k -> SharedMeshes]} :
           k \in 2..MaxObjects}

MaterialScenes == {<<MkObject(ObjNames[2], m)>> : m \in MaterialMeshes}

GeometryScenes == {<<MkObject(ObjNames[1], m)>> : m \in GeometryMeshes}

\* the selections and the setting of option_subd the model starts from
Scenes ==
    (({<<>>} \cup MaterialScenes \cup GeometryScenes \cup MultiScenes) \X {FALSE})
    \cup (GeometryScenes \X {TRUE})

\* a < b for Python strings
RECURSIVE StrLess(_, _)
StrLess(a, b) ==
    IF b = <<>> THEN FALSE
    ELSE IF a = <<>> THEN TRUE
    ELSE IF Head(a) # Head(b) THEN Head(a) < Head(b)
    ELSE StrLess(Tail(a), Tail(b))

\* objects.sort(key = lambda a: a.name): a stable sort
RECURSIVE SortByName(_)
SortByName(os) ==
    IF os = <<>> THEN <<>>
    ELSE LET first == CHOOSE i \in 1..Len(os) :
                        /\ \A j \in 1..Len(os) : ~StrLess(os[j].name, os[i].name)
                        /\ \A j \in 1..(i - 1) : StrLess(os[i].name, os[j].name)
         IN  <<os[first]>> \o
             SortByName([k \in 1..(Len(os) - 1) |-> IF k < first THEN os[k] ELSE os[k + 1]])

-----------------------------------------------------------------------------
(* The export operator.                                                    *)

NoTags == [isStr |-> FALSE, data |-> <<>>]

\* io.BytesIO() holding the bytes written to it so far
OpenBuffer(data) == [closed |-> FALSE, data |-> data]

\* a BytesIO after close(): its contents are gone, getvalue() raises ValueError
ClosedBuffer == [closed |-> TRUE, data |-> <<>>]

\* the locals of write() before the loop over objdups and after its return
NoLocals ==
    /\ material_names' = <<>>
    /\ tags' = NoTags
    /\ surfs' = <<>>
    /\ chunks' = <<>>
    /\ meshdata' = OpenBuffer(<<>>)

Init ==
    /\ \E sc \in Scenes : objects = sc[1] /\ option_subd = sc[2]
    /\ option_batch = FALSE
    /\ pc = "idle"
    /\ runs = 0
    /\ objdups = <<>>
    /\ meshes = <<>>
    /\ objIdx = 0
    /\ filename = <<>>
    /\ material_names = <<>>
    /\ tags = NoTags
    /\ surfs = <<>>
    /\ chunks = <<>>
    /\ meshdata = OpenBuffer(<<>>)
    /\ disk = [f \in {} |-> <<>>]
    /\ err = "none"
    /\ arg = <<>>
    /\ res = <<>>

\* execute() and lines 426-481 of write(): the user has set option_batch to batch
Execute(batch) ==
    /\ pc = "idle"
    /\ runs < MaxRuns
    /\ runs' = runs + 1
    /\ option_batch' = batch
    /\ objdups' = SortByName(objects)
    /\ meshes' = IF batch THEN <<>> ELSE [i \in 1..Len(objects) |-> i]
    /\ filename' = FilePath
    /\ objIdx' = IF Len(objects) = 0 THEN 0 ELSE 1
    /\ pc' = IF Len(objects) = 0 THEN "idle" ELSE "generate"
    /\ NoLocals
    /\ UNCHANGED <<objects, option_subd, disk, err, arg, res>>

\* lines 485-539 of write(): generate the chunks of one output file; when a
\* line raises, the locals keep what they were bound to at the raise
Generate ==
    /\ pc = "generate"
    /\ meshes' = IF option_batch THEN <<objIdx>> ELSE meshes
    /\ \E gen \in {GenerateChunks([k \in 1..Len(meshes') |-> objdups[meshes'[k]]],
                                  option_subd)} :
           /\ pc' = IF gen.err # "none" THEN "raised" ELSE "open"
           /\ err' = IF gen.err # "none" THEN gen.err ELSE err
           /\ IF gen.bound
              THEN /\ material_names' = gen.material_names
                   /\ tags' = gen.tags
                   /\ surfs' = gen.surfs
                   /\ chunks' = gen.chunks
                   /\ meshdata' = OpenBuffer(gen.meshdata)
              ELSE UNCHANGED <<material_names, tags, surfs, chunks, meshdata>>
    /\ UNCHANGED <<objects, option_batch, option_subd, runs, objdups, objIdx,
                   filename, disk, arg, res>>

\* lines 541-550 of write(): name the file, open it (which empties it), write
\* the header
OpenFile ==
    /\ pc = "open"
    /\ LET name == OutputName(filename, option_batch, objdups[objIdx].name)
       IN  /\ filename' = name
           /\ disk' = (name :> write_header(chunks)) @@ disk
    /\ pc' = "writing"
    /\ UNCHANGED <<objects, option_batch, option_subd, runs, objdups, meshes, objIdx,
                   material_names, tags, surfs, chunks, meshdata, err, arg, res>>

\* lines 551-556 of write(): the chunk writes inside the with block; writing
\* the str that generate_tags returned raises TypeError after the chunk's name
\* and length are written, and the with block closes the file; line 552 closes
\* meshdata once its contents are written
WriteChunks ==
    /\ pc = "writing"
    /\ IF tags.isStr
       THEN /\ disk' = [disk EXCEPT ![filename] = @ \o TagTAGS \o U32(Len(tags.data))]
            /\ pc' = "raised"
            /\ err' = "TypeError:write_chunk"
            /\ meshdata' = meshdata
       ELSE /\ disk' = [disk EXCEPT ![filename] =
                            @ \o write_chunk(TagTAGS, tags.data) \o meshdata.data \o
                            Flatten([k \in 1..Len(surfs) |-> write_chunk(TagSURF, surfs[k])])]
            /\ pc' = "written"
            /\ err' = err
            /\ meshdata' = ClosedBuffer
    /\ UNCHANGED <<objects, option_batch, option_subd, runs, objdups, meshes, objIdx,
                   filename, material_names, tags, surfs, chunks, arg, res>>

\* lines 558-569 of write(): delete the duplicate, go on to the next object in
\* batch mode, return otherwise
Cleanup ==
    /\ pc = "written"
    /\ IF option_batch /\ objIdx < Len(objdups)
       THEN /\ objIdx' = objIdx + 1
            /\ pc' = "generate"
            /\ UNCHANGED <<material_names, tags, surfs, chunks, meshdata>>
       ELSE /\ objIdx' = 0
            /\ pc' = "idle"
            /\ NoLocals
    /\ UNCHANGED <<objects, option_batch, option_subd, runs, objdups, meshes,
                   filename, disk, err, arg, res>>

Next ==
    \/ \E batch \in BOOLEAN : Execute(batch)
    \/ Generate
    \/ OpenFile
    \/ WriteChunks
    \/ Cleanup

Spec == Init /\ [][Next]_vars

-----------------------------------------------------------------------------
(* Specifications that apply one helper function to inputs drawn from a    *)
(* bounded set: arg is the input, res the result.                          *)

ExportIdle ==
    /\ objects = <<>>
    /\ option_subd = FALSE
    /\ option_batch = FALSE
    /\ runs = 0
    /\ objdups = <<>>
    /\ meshes = <<>>
    /\ objIdx = 0
    /\ filename = <<>>
    /\ material_names = <<>>
    /\ tags = NoTags
    /\ surfs = <<>>
    /\ chunks = <<>>
    /\ meshdata = OpenBuffer(<<>>)
    /\ disk = [f \in {} |-> <<>>]
    /\ err = "none"

\* "A", "B", "e" with acute accent, the euro sign, an emoji
NameChars == {65, 66, 233, 8364, 128512}

Names == SeqsUpTo(NameChars, MaxStrLen)

InitNString == ExportIdle /\ pc = "call" /\ arg \in Names /\ res = <<>>

\* a name is stored: bytes(generate_nstring(name), 'UTF-8')
ApplyNString ==
    /\ pc = "call"
    /\ res' = StoredName(arg)
    /\ pc' = "return"
    /\ UNCHANGED <<exportVars, arg>>

SpecNString == InitNString /\ [][ApplyNString]_vars

\* indices around 0, around the width threshold 0xFF00, around 2^16 and 2^24,
\* and up to the largest index of a 32-bit signed int
VXIndices ==
    (0..MaxSmallIndex) \cup ((65280 - MaxNear)..(65280 + MaxNear))
    \cup ((65536 - MaxNear)..(65536 + MaxNear))
    \cup ((16777216 - MaxNear)..(16777216 + MaxNear))
    \cup ((2147483646 - MaxNear)..2147483646) \cup {2147483647}

InitVX == ExportIdle /\ pc = "call" /\ arg \in VXIndices /\ res = <<>>

ApplyVX ==
    /\ pc = "call"
    /\ res' = generate_vx(arg)
    /\ pc' = "return"
    /\ UNCHANGED <<exportVars, arg>>

SpecVX == InitVX /\ [][ApplyVX]_vars

MaxCorners == 4      \* corners per polygon of the meshes given to generate_vmad_uv

UVValues == {<<0, 0>>, <<1, 0>>}

\* the polygons of a mesh whose polygons have the given numbers of corners:
\* polygon j uses the vertices j-1 .. j+sizes[j]-2
UVPolygons(sizes) ==
    [j \in 1..Len(sizes) |->
        [vertices       |-> [k \in 1..sizes[j] |-> j + k - 2],
         loop_start     |-> IF j = 1 THEN 0 ELSE sizes[1],
         material_index |-> 0]]

\* one polygon of 3..MaxCorners corners or two triangles, one UV layer, every
\* assignment of UVValues to the corners
UVMeshes ==
    UNION {{[polygons |-> UVPolygons(sizes),
             uv_layers |-> <<[name |-> NameUVMap, data |-> d]>>] :
                d \in [1..SumLen([j \in 1..Len(sizes) |-> [k \in 1..sizes[j] |-> 0]])
                         -> UVValues]} :
           sizes \in {<<n>> : n \in 3..MaxCorners} \cup {<<3, 3>>}}

InitVmadUV == ExportIdle /\ pc = "call" /\ arg \in UVMeshes /\ res = <<>>

ApplyVmadUV ==
    /\ pc = "call"
    /\ res' = generate_vmad_uv(arg)
    /\ pc' = "return"
    /\ UNCHANGED <<exportVars, arg>>

SpecVmadUV == InitVmadUV /\ [][ApplyVmadUV]_vars

\* vertex lists of polygons: small indices and indices that need 4 bytes
PolVertexLists ==
    {<<0, 1, 2>>, <<2, 0, 1>>, <<1, 3, 2>>, <<0, 1, 2, 3>>, <<3, 1, 0, 2>>,
     <<65279, 65280, 1>>, <<70000, 2, 65281, 0>>}

\* edges of a mesh besides the polygons' own: none, or one that touches no polygon
PolLooseEdges == {<<>>, <<<<7, 8>>>>}

\* the edges of a polygon with vertex list vs
PolygonEdges(vs) == [k \in 1..Len(vs) |-> <<vs[k], vs[(k % Len(vs)) + 1]>>]

\* meshes of 0..MaxPolys polygons, as far as generate_pols reads them
PolsMeshes ==
    UNION {{[polygons |-> [j \in 1..n |->
                              [vertices |-> vl[j], loop_start |-> 0, material_index |-> 0]],
             edges    |-> Flatten([j \in 1..n |-> PolygonEdges(vl[j])]) \o le] :
                vl \in [1..n -> PolVertexLists], le \in PolLooseEdges} :
           n \in 0..MaxPolys}

InitPols ==
    /\ ExportIdle /\ pc = "call" /\ res = <<>>
    /\ arg \in [mesh : PolsMeshes, subd : BOOLEAN]

ApplyPols ==
    /\ pc = "call"
    /\ res' = generate_pols(arg.mesh, arg.subd)
    /\ pc' = "return"
    /\ UNCHANGED <<exportVars, arg>>

SpecPols == InitPols /\ [][ApplyPols]_vars

-----------------------------------------------------------------------------
(* Readers of the written bytes, as an LWO2 reader decodes them.           *)

IsBytes(b) == \A k \in 1..Len(b) : b[k] \in 0..255

RdU16(b, p) == b[p] * 256 + b[p + 1]

RdU32(b, p) == b[p] * 16777216 + b[p + 1] * 65536 + b[p + 2] * 256 + b[p + 3]

\* a variable-width index at position p: 4 bytes when the first is 0xFF
RdVX(b, p) ==
    IF b[p] = 255
    THEN [val |-> b[p + 1] * 65536 + b[p + 2] * 256 + b[p + 3], next |-> p + 4]
    ELSE [val |-> b[p] * 256 + b[p + 1], next |-> p + 2]

\* n variable-width indices from position p
RECURSIVE RdVXs(_, _, _)
RdVXs(b, p, n) ==
    IF n = 0 THEN [vals |-> <<>>, next |-> p]
    ELSE LET x    == RdVX(b, p)
             rest == RdVXs(b, x.next, n - 1)
         IN  [vals |-> <<x.val>> \o rest.vals, next |-> rest.next]

\* the entries of a POLS block from position p: each a u16 count and that many
\* indices
RECURSIVE RdPols(_, _)
RdPols(b, p) ==
    IF p > Len(b) THEN <<>>
    ELSE LET e == RdVXs(b, p + 2, RdU16(b, p))
         IN  <<e.vals>> \o RdPols(b, e.next)

\* the entries of a TXUV block from position p: vertex, polygon, 8 bytes of UV
RECURSIVE RdUVEntries(_, _)
RdUVEntries(b, p) ==
    IF p > Len(b) THEN <<>>
    ELSE LET v == RdVX(b, p)
             f == RdVX(b, v.next)
         IN  <<[vert |-> v.val, poly |-> f.val, uv |-> SubSeq(b, f.next, f.next + 7)]>>
             \o RdUVEntries(b, f.next + 8)

Reverse(q) == [k \in 1..Len(q) |-> q[Len(q) + 1 - k]]

-----------------------------------------------------------------------------
(* C4 String padding.                                                      *)

\* C4: every stored name (generate_nstring, then UTF-8) is null-terminated, has
\* an even number of bytes and at least len(s) + 1 of them.
StringPadding ==
    pc = "return" =>
        /\ Len(res) % 2 = 0
        /\ res[Len(res)] = 0
        /\ Len(res) >= Len(arg) + 1

-----------------------------------------------------------------------------
(* C5 Index width threshold.                                               *)

\* C5: generate_vx(i) is the 2-byte big-endian value of i when i < 0xFF00, and
\* otherwise 4 bytes, 0xFF and then the low 24 bits of i (the big-endian value
\* of i | 0xFF000000); the first byte is 0xFF exactly in the 4-byte form.
IndexWidthThreshold ==
    pc = "return" =>
        /\ IsBytes(res)
        /\ IF arg < 65280
           THEN Len(res) = 2 /\ RdU16(res, 1) = arg
           ELSE /\ Len(res) = 4
                /\ res[1] = 255
                /\ res[2] * 65536 + res[3] * 256 + res[4] = arg % 16777216
        /\ (res[1] = 255 <=> Len(res) = 4)
        /\ RdVX(res, 1).next = Len(res) + 1

IndexWidthWitness ==
    pc = "return" /\ arg = 65280 /\ res = <<255, 0, 255, 0>>

IndexWidthWitnessNarrow ==
    pc = "return" /\ arg = 65279 /\ res = <<254, 255>>

-----------------------------------------------------------------------------
(* C8 UV seam suppression.                                                 *)

\* the corners (polygon i, position k) of a mesh, in the order of iteration
Corners(mesh) ==
    Flatten([i \in 1..Len(mesh.polygons) |->
                [k \in 1..Len(mesh.polygons[i].vertices) |-> <<i, k>>]])

\* uv(prev) = uv(this) = uv(next) at corner c of layer l, prev and next being
\* the cyclic neighbours of the corner in its polygon
SeamFree(mesh, l, c) ==
    LET p    == mesh.polygons[c[1]]
        n    == Len(p.vertices)
        k    == c[2]
        prev == IF k = 1 THEN n ELSE k - 1
        next == IF k = n THEN 1 ELSE k + 1
        uv(j) == l.data[p.loop_start + j]
    IN  uv(prev) = uv(k) /\ uv(k) = uv(next)

\* C8: a corner has an entry in the UV block of a layer iff not
\* uv(prev) = uv(this) = uv(next), and a layer has a block iff it has an entry.
UVSeamSuppression ==
    pc = "return" =>
        LET mesh   == arg
            Kept(l) == SelectSeq(Corners(mesh), LAMBDA c : ~SeamFree(mesh, l, c))
            layers == SelectSeq(mesh.uv_layers, LAMBDA l : Kept(l) # <<>>)
        IN  /\ Len(res) = Len(layers)
            /\ \A j \in 1..Len(layers) :
                 LET l    == layers[j]
                     head == TagTXUV \o <<0, 2>> \o StoredName(l.name)
                     es   == RdUVEntries(res[j], Len(head) + 1)
                     kept == Kept(l)
                 IN  /\ SubSeq(res[j], 1, Len(head)) = head
                     /\ Len(es) = Len(kept)
                     /\ \A e \in 1..Len(es) :
                          LET c == kept[e]
                              p == mesh.polygons[c[1]]
                          IN  /\ es[e].vert = p.vertices[c[2]]
                              /\ es[e].poly = c[1] - 1
                              /\ es[e].uv = F32(l.data[p.loop_start + c[2]][1]) \o
                                            F32(l.data[p.loop_start + c[2]][2])

\* a polygon of which some corners are suppressed and some are written
UVSeamWitness ==
    /\ pc = "return"
    /\ Len(res) = 1
    /\ \E c \in {Corners(arg)[x] : x \in 1..Len(Corners(arg))} :
           SeamFree(arg, arg.uv_layers[1], c)

\* a triangle whose corners share one UV: no block
UVFlatWitness ==
    /\ pc = "return"
    /\ Len(arg.polygons) = 1
    /\ \A k \in 1..3 : arg.uv_layers[1].data[k] = <<1, 0>>
    /\ res = <<>>

-----------------------------------------------------------------------------
(* C9 Winding reversal.                                                    *)

\* C9: the Polygons block stores, in polygon order, for each polygon its count
\* and its vertex indices in reversed order.
WindingReversal ==
    pc = "return" =>
        LET polys == arg.mesh.polygons
            es    == RdPols(res, 5)
        IN  /\ Len(es) >= Len(polys)
            /\ \A i \in 1..Len(polys) : es[i] = Reverse(polys[i].vertices)
            /\ \A i \in (Len(polys) + 1)..Len(es) : Len(es[i]) = 2

\* two polygons, one with indices of both widths
WindingWitness ==
    /\ pc = "return"
    /\ Len(arg.mesh.polygons) = 2
    /\ arg.mesh.polygons[1].vertices = <<0, 1, 2>>
    /\ arg.mesh.polygons[2].vertices = <<70000, 2, 65281, 0>>
    /\ SubSeq(res, 5, 12) = <<0, 3, 0, 2, 0, 1, 0, 0>>

-----------------------------------------------------------------------------
(* Readers of a written file.                                              *)

\* the chunks of a file from position p, as records [name, data, ok]; a chunk
\* whose header or declared length runs past the end of the file has ok FALSE
RECURSIVE RdChunks(_, _)
RdChunks(b, p) ==
    IF p > Len(b) THEN <<>>
    ELSE IF p + 7 > Len(b)
    THEN <<[name |-> SubSeq(b, p, Len(b)), data |-> <<>>, ok |-> FALSE]>>
    ELSE IF p + 7 + RdU32(b, p + 4) > Len(b)
    THEN <<[name |-> SubSeq(b, p, p + 3), data |-> SubSeq(b, p + 8, Len(b)), ok |-> FALSE]>>
    ELSE <<[name |-> SubSeq(b, p, p + 3),
            data |-> SubSeq(b, p + 8, p + 7 + RdU32(b, p + 4)),
            ok   |-> TRUE]>> \o RdChunks(b, p + 8 + RdU32(b, p + 4))

\* the chunks after the 12-byte FORM header
FileChunks(b) == RdChunks(b, 13)

\* the names of a TAGS block from position p: each ends at its first 0 and is
\* padded to an even length
RECURSIVE RdNames(_, _)
RdNames(b, p) ==
    IF p > Len(b) THEN <<>>
    ELSE LET z == Min({k \in p..Len(b) : b[k] = 0} \cup {Len(b) + 1})
             n == z - p + 1
         IN  <<SubSeq(b, p, z - 1)>> \o RdNames(b, p + n + (n % 2))

\* the entries of a PTAG block from position p: polygon index, u16 surface index
RECURSIVE RdPtag(_, _)
RdPtag(b, p) ==
    IF p > Len(b) THEN <<>>
    ELSE LET f == RdVX(b, p)
         IN  <<[poly |-> f.val, surf |-> RdU16(b, f.next)]>> \o RdPtag(b, f.next + 2)

\* the positions of the chunks named n
Positions(cs, n) == {k \in 1..Len(cs) : cs[k].name = n}

\* the g-th layer of a file: the chunks from its g-th LAYR up to the next LAYR,
\* CLIP or SURF
LayerGroup(cs, g) ==
    LET starts == Positions(cs, TagLAYR)
        first  == CHOOSE k \in starts : Cardinality({j \in starts : j < k}) = g - 1
        stops  == {k \in (first + 1)..Len(cs) : cs[k].name \in {TagLAYR, TagCLIP, TagSURF}}
        last   == IF stops = {} THEN Len(cs) ELSE Min(stops) - 1
    IN  SubSeq(cs, first, last)

\* the data of the one chunk named n in a layer
ChunkOf(group, n) == group[CHOOSE k \in 1..Len(group) : group[k].name = n].data

\* the file the operator is writing, or was writing when write_chunk raised
Unfinished(f) == f = filename /\ (pc = "writing" \/ err = "TypeError:write_chunk")

\* the object whose mesh is the g-th layer of the file being generated
LayerObject(g) == objdups[meshes[g]]

-----------------------------------------------------------------------------
(* C1 Header size law.                                                     *)

\* the law for one file
HeaderLawOf(b) ==
    /\ Len(b) >= 12
    /\ SubSeq(b, 1, 4) = TagFORM
    /\ SubSeq(b, 9, 12) = TagLWO2
    /\ \E cs \in {FileChunks(b)} :
         /\ \A k \in 1..Len(cs) : cs[k].ok
         /\ RdU32(b, 5) = SumLen([k \in 1..Len(cs) |-> cs[k].data]) + 8 * Len(cs) + 4
    /\ Len(b) = RdU32(b, 5) + 8

\* the part of C1 that holds: every file the export has written to its last
\* chunk obeys the law, and its chunks are the chunks the size was computed from
HeaderSizeLawWritten ==
    /\ \A f \in DOMAIN disk : ~Unfinished(f) => HeaderLawOf(disk[f])
    /\ pc = "written" =>
         \E cs \in {FileChunks(disk[filename])} :
            [k \in 1..Len(cs) |-> cs[k].data] = chunks

\* C1: for every export, whether it returns or raises, the size in the FORM
\* header of a file it has written and closed is the sum of the lengths of the
\* chunks written after the header + 8 per chunk + 4, the file is that size
\* + 8 bytes long, and the chunks written are the chunks the size was
\* computed from.
HeaderSizeLaw ==
    /\ \A f \in DOMAIN disk : ~(f = filename /\ pc = "writing") => HeaderLawOf(disk[f])
    /\ (pc = "written" \/ err = "TypeError:write_chunk") =>
         /\ RdU32(disk[filename], 5) = SumLen(chunks) + 8 * Len(chunks) + 4
         /\ \E cs \in {FileChunks(disk[filename])} :
               [k \in 1..Len(cs) |-> cs[k].data] = chunks

\* a written file of two layers with VMAD chunks
HeaderSizeWitness ==
    /\ pc = "written"
    /\ Len(meshes) = 2
    /\ \E cs \in {FileChunks(disk[filename])} :
         /\ Positions(cs, TagVMAD) # {}
         /\ Cardinality(Positions(cs, TagSURF)) >= 2

-----------------------------------------------------------------------------
(* C6 Chunk order.                                                         *)

\* the reader's position in the grammar
\*   TAGS (LAYR PNTS BBOX VMAD-RGBA* POLS PTAG VMAD-TXUV*)+ CLIP* SURF*
\* after the chunk c, from the position st
OrderStep(st, c) ==
    LET kind == IF Len(c.data) >= 4 THEN SubSeq(c.data, 1, 4) ELSE <<>>
    IN  CASE st = "start" /\ c.name = TagTAGS -> "tags"
          [] st \in {"tags", "ptag"} /\ c.name = TagLAYR -> "layr"
          [] st = "layr" /\ c.name = TagPNTS -> "pnts"
          [] st = "pnts" /\ c.name = TagBBOX -> "bbox"
          [] st = "bbox" /\ c.name = TagVMAD /\ kind = TagRGBA -> "bbox"
          [] st = "bbox" /\ c.name = TagPOLS -> "pols"
          [] st = "pols" /\ c.name = TagPTAG -> "ptag"
          [] st = "ptag" /\ c.name = TagVMAD /\ kind = TagTXUV -> "ptag"
          [] st \in {"ptag", "clip"} /\ c.name = TagCLIP -> "clip"
          [] st \in {"ptag", "clip", "surf"} /\ c.name = TagSURF -> "surf"
          [] OTHER -> "reject"

RECURSIVE OrderRun(_, _, _)
OrderRun(cs, k, st) ==
    IF k > Len(cs) THEN st ELSE OrderRun(cs, k + 1, OrderStep(st, cs[k]))

\* the layer numbers of the LAYR chunks, in file order
LayerNumbers(cs) ==
    LET ls == SelectSeq(cs, LAMBDA c : c.name = TagLAYR)
    IN  [k \in 1..Len(ls) |-> RdU16(ls[k].data, 1)]

\* C6: in every written file the chunks come in the order TAGS, then layer by
\* layer LAYR PNTS BBOX, the vertex-color VMADs, POLS, PTAG, the UV VMADs, then
\* the CLIPs, then the SURFs; the layers are those of the meshes, in order.
ChunkOrder ==
    /\ \A f \in DOMAIN disk :
         ~Unfinished(f) => OrderRun(FileChunks(disk[f]), 1, "start") \in {"ptag", "clip", "surf"}
    /\ pc = "written" =>
         LayerNumbers(FileChunks(disk[filename])) = [g \in 1..Len(meshes) |-> g - 1]

\* a written file of two layers, the first with both kinds of VMAD chunk
ChunkOrderWitness ==
    /\ pc = "written"
    /\ Len(meshes) = 2
    /\ \E cs \in {FileChunks(disk[filename])} :
         \E g \in {LayerGroup(cs, 1)} :
            /\ Cardinality(Positions(g, TagVMAD)) = 2
            /\ g[4].name = TagVMAD
            /\ g[Len(g)].name = TagVMAD

-----------------------------------------------------------------------------
(* C2 Surface index consistency.                                           *)

\* the number of Tag Table entries a mesh contributes
TableEntries(mesh) ==
    IF Len(mesh.materials) = 0 THEN 1
    ELSE Len(SelectSeq(mesh.materials, LAMBDA m : m # None))

\* the position in the Tag Table of the file of the entry that the g-th mesh
\* contributes for the material of poly
OwnEntry(g, poly) ==
    LET mesh   == LayerObject(g).data
        before == SumLen([h \in 1..(g - 1) |->
                            [k \in 1..TableEntries(LayerObject(h).data) |-> 0]])
    IN  IF Len(mesh.materials) = 0 THEN before
        ELSE before + Len(SelectSeq(SubSeq(mesh.materials, 1, poly.material_index),
                                    LAMBDA m : m # None))

\* the surface indices PTAG holds for the g-th layer of the written file
WrittenSurfs(g) ==
    LET es == RdPtag(ChunkOf(LayerGroup(FileChunks(disk[filename]), g), TagPTAG), 5)
    IN  [i \in 1..Len(es) |-> es[i].surf]

\* C2: the surface index written for a polygon is the position in the Tag
\* Table of the file of its mesh's own entry for the polygon's material.
SurfaceIndexOwnEntry ==
    pc = "written" =>
        \A g \in 1..Len(meshes) :
            WrittenSurfs(g) =
                [i \in 1..Len(LayerObject(g).data.polygons) |->
                    OwnEntry(g, LayerObject(g).data.polygons[i])]

-----------------------------------------------------------------------------
(* C3 Default-material fallback.                                           *)

NoMaterial(mesh) == Len(mesh.materials) = 0 /\ Len(mesh.vertex_colors) = 0

\* C3: the export of a mesh without materials and without vertex colors does
\* not raise; the written file has the reserved default name in its Tag Table,
\* the default surface for it, and the mesh's polygons point at that entry.
DefaultMaterialFallback ==
    (\E g \in 1..Len(meshes) : NoMaterial(LayerObject(g).data)) =>
        /\ err # "AttributeError:LWO_DEFAULT_MATERIAL"
        /\ pc = "written" =>
             /\ \E k \in 1..Len(material_names) : material_names[k] = DEFAULT_NAME
             /\ \A k \in 1..Len(material_names) :
                  material_names[k] = DEFAULT_NAME => surfs[k] = generate_default_surf
             /\ \A g \in 1..Len(meshes) :
                  NoMaterial(LayerObject(g).data) =>
                      \A i \in 1..Len(WrittenSurfs(g)) :
                          material_names[WrittenSurfs(g)[i] + 1] = DEFAULT_NAME

-----------------------------------------------------------------------------
(* C10 Unresolvable material reference.                                    *)

Unresolvable(mesh, poly) ==
    /\ Len(mesh.materials) > 0
    /\ \/ poly.material_index >= Len(mesh.materials)
       \/ mesh.materials[poly.material_index + 1] = None

\* C10: a polygon whose material reference cannot be resolved gets surface
\* index 0 and the export does not raise.
UnresolvedGetsIndexZero ==
    /\ err \notin {"IndexError:generate_ptag", "AttributeError:generate_ptag",
                   "ValueError:generate_ptag"}
    /\ pc = "written" =>
         \A g \in 1..Len(meshes) :
            \A i \in 1..Len(LayerObject(g).data.polygons) :
                Unresolvable(LayerObject(g).data, LayerObject(g).data.polygons[i])
                    => WrittenSurfs(g)[i] = 0

-----------------------------------------------------------------------------
(* C7 Batch vs. combined equivalence.                                      *)

\* the file a combined export writes
CombinedName == OutputName(FilePath, FALSE, <<>>)

\* batch mode has written the file of the objIdx-th object, and an earlier
\* combined export of the same objects has left its file
BatchAfterCombined ==
    pc = "written" /\ option_batch /\ CombinedName \in DOMAIN disk

\* layer objIdx of the combined file and the layer of the batch file
CombinedLayer == LayerGroup(FileChunks(disk[CombinedName]), objIdx)

BatchLayer == LayerGroup(FileChunks(disk[filename]), 1)

\* the Tag Table a file holds in TAGS
TagTable(b) == RdNames(FileChunks(b)[1].data, 1)

\* C7 as claimed: every per-layer chunk payload of layer k of the combined file
\* is bit-identical to that chunk of the k-th object's batch file.
BatchCombinedIdentical == BatchAfterCombined => CombinedLayer = BatchLayer

\* C7 as amended: PNTS, BBOX, VMAD and POLS are bit-identical; LAYR differs
\* only in its layer number, k-1 in the combined file and 0 in the batch file;
\* PTAG lists the same polygons, with surface indices that name the same
\* material in each file's own Tag Table.
BatchCombinedLayers ==
    BatchAfterCombined =>
        \E c \in {CombinedLayer} : \E b \in {BatchLayer} :
            /\ Len(c) = Len(b)
            /\ \A j \in 1..Len(c) :
                 /\ c[j].name = b[j].name
                 /\ IF c[j].name = TagLAYR
                    THEN /\ RdU16(c[j].data, 1) = objIdx - 1
                         /\ RdU16(b[j].data, 1) = 0
                         /\ Len(c[j].data) = Len(b[j].data)
                         /\ SubSeq(c[j].data, 3, Len(c[j].data)) =
                            SubSeq(b[j].data, 3, Len(b[j].data))
                    ELSE IF c[j].name = TagPTAG
                    THEN \E ec \in {RdPtag(c[j].data, 5)} : \E eb \in {RdPtag(b[j].data, 5)} :
                           /\ SubSeq(c[j].data, 1, 4) = SubSeq(b[j].data, 1, 4)
                           /\ Len(ec) = Len(eb)
                           /\ \A e \in 1..Len(ec) :
                                /\ ec[e].poly = eb[e].poly
                                /\ TagTable(disk[CombinedName])[ec[e].surf + 1] =
                                   TagTable(disk[filename])[eb[e].surf + 1]
                    ELSE c[j].data = b[j].data

\* the second object's batch file, its layer holding VMAD chunks and a PTAG
\* that differs from the combined file's
BatchCombinedWitness ==
    /\ BatchAfterCombined
    /\ objIdx = 2
    /\ Positions(BatchLayer, TagVMAD) # {}
    /\ ChunkOf(BatchLayer, TagPTAG) # ChunkOf(CombinedLayer, TagPTAG)

-----------------------------------------------------------------------------
(* C11 One Surface per Tag Table entry.                                    *)

\* the payloads of the SURF chunks of a file, in file order
SurfChunks(b) ==
    LET ss == SelectSeq(FileChunks(b), LAMBDA c : c.name = TagSURF)
    IN  [k \in 1..Len(ss) |-> ss[k].data]

\* a mesh surface block ends with its SMAN sub-block, which the default block lacks
IsMeshSurface(d) == Len(d) >= 10 /\ SubSeq(d, Len(d) - 9, Len(d) - 4) = TagSMAN \o U16(4)

\* the part of C11 about the files that are written: as many SURF chunks as
\* Tag Table entries, the k-th starting with the name of the k-th entry, the
\* default block for the reserved name and a mesh surface block otherwise
SurfacesFollowTags ==
    pc = "written" =>
        \E table \in {TagTable(disk[filename])} : \E ss \in {SurfChunks(disk[filename])} :
            /\ table = material_names
            /\ Len(ss) = Len(table)
            /\ \A k \in 1..Len(table) :
                 /\ RdNames(ss[k], 1)[1] = table[k]
                 /\ IF table[k] = DEFAULT_NAME
                    THEN ss[k] = generate_default_surf
                    ELSE IsMeshSurface(ss[k])

\* C11: every Tag Table entry gets its Surface block, the entry equal to the
\* reserved default name the default block: generating the blocks does not
\* raise, and the written file holds one SURF chunk per entry, in table order.
OneSurfacePerTag ==
    /\ err # "TypeError:generate_surface"
    /\ SurfacesFollowTags

\* a written file with a Tag Table of two entries from two meshes
SurfacesFollowTagsWitness ==
    /\ pc = "written"
    /\ Len(meshes) = 2
    /\ Len(TagTable(disk[filename])) >= 2
    /\ Len(SurfChunks(disk[filename])) >= 2

-----------------------------------------------------------------------------
(* C12 Batch mode: one output file per object.                             *)

\* a batch export of the selected objects has returned
BatchDone == pc = "idle" /\ option_batch /\ runs > 0

\* f is a name made from the object name n: the directory of the chosen path,
\* the name with every space and period replaced by another character, ".lwo"
NamedFrom(f, n) ==
    \E pre \in {dirname(FilePath) \o Sep} :
        /\ Len(f) = Len(pre) + Len(n) + Len(Ext)
        /\ SubSeq(f, 1, Len(pre)) = pre
        /\ SubSeq(f, Len(f) - Len(Ext) + 1, Len(f)) = Ext
        /\ \A k \in 1..Len(n) :
             IF n[k] \in {32, 46} THEN f[Len(pre) + k] \notin {32, 46}
                                  ELSE f[Len(pre) + k] = n[k]

\* the file b holds exactly one layer, numbered 0, with the points and the
\* polygons of the object o
OneLayerOf(b, o) ==
    \E cs \in {FileChunks(b)} :
        /\ Cardinality(Positions(cs, TagLAYR)) = 1
        /\ \E g \in {LayerGroup(cs, 1)} :
             /\ RdU16(ChunkOf(g, TagLAYR), 1) = 0
             /\ ChunkOf(g, TagPNTS) = generate_pnts(o.data, option_scale)
             /\ ChunkOf(g, TagPOLS) = generate_pols(o.data, option_subd)
             /\ Cardinality(Positions(g, TagVMAD)) =
                    Len(generate_vertex_colors(o.data)) + Len(generate_vmad_uv(o.data))

\* C12: after a batch export of N objects each object has a file of its own,
\* named from the object's name with spaces and periods replaced, that holds
\* one layer, number 0, with that object's mesh.
BatchOneFilePerObject ==
    BatchDone =>
        \E own \in [1..Len(objdups) -> DOMAIN disk] :
            /\ \A i, j \in 1..Len(objdups) : own[i] = own[j] => i = j
            /\ \A i \in 1..Len(objdups) :
                 /\ NamedFrom(own[i], objdups[i].name)
                 /\ OneLayerOf(disk[own[i]], objdups[i])

\* the part of C12 that holds: the file written last for an object is named by
\* the path's directory and the object's name with periods replaced, and holds
\* one layer, number 0, with the object's mesh
BatchFileWritten ==
    pc = "written" /\ option_batch =>
        /\ filename = dirname(FilePath) \o Sep \o Replace(objdups[objIdx].name, 46, 95) \o Ext
        /\ OneLayerOf(disk[filename], objdups[objIdx])

-----------------------------------------------------------------------------
(* C13 Empty mesh.                                                         *)

EmptyMesh(mesh) == Len(mesh.vertices) = 0 /\ Len(mesh.polygons) = 0

\* the g-th layer of the written file is the layer of an empty mesh: LAYR with
\* the object's layer name, PNTS of length zero, BBOX of six zero floats, POLS
\* with the polygon type only, PTAG with "SURF" only
EmptyLayer(g) ==
    \E cs \in {FileChunks(disk[filename])} :
        /\ Cardinality(Positions(cs, TagLAYR)) = Len(meshes)
        /\ \E grp \in {LayerGroup(cs, g)} :
             /\ [k \in 1..Len(grp) |-> grp[k].name] =
                    <<TagLAYR, TagPNTS, TagBBOX, TagPOLS, TagPTAG>>
             /\ RdNames(ChunkOf(grp, TagLAYR), 17)[1] =
                    Replace(Replace(LayerObject(g).name, 32, 95), 46, 95)
             /\ ChunkOf(grp, TagPNTS) = <<>>
             /\ ChunkOf(grp, TagBBOX) = [k \in 1..24 |-> 0]
             /\ ChunkOf(grp, TagPOLS) \in {TagFACE, TagSUBD}
             /\ ChunkOf(grp, TagPTAG) = TagSURF

\* the part of C13 about the files that are written: the layer of an empty
\* mesh is there, with its five chunks of empty content
EmptyMeshChunks ==
    pc = "written" =>
        \A g \in 1..Len(meshes) : EmptyMesh(LayerObject(g).data) => EmptyLayer(g)

\* C13: the export of a mesh with no vertices and no polygons does not raise,
\* the file is written, and the layer of the mesh holds LAYR, an empty PNTS, a
\* BBOX of six zeros, a POLS with the type only and a PTAG with "SURF" only.
EmptyMeshExported ==
    /\ (/\ pc = "raised"
        /\ Len(meshes) > 0) =>
            \E g \in 1..Len(meshes) : ~EmptyMesh(LayerObject(g).data)
    /\ EmptyMeshChunks

\* a written file of two layers, the second the layer of an empty mesh
EmptyMeshWitness ==
    /\ pc = "written"
    /\ Len(meshes) = 2
    /\ EmptyMesh(LayerObject(2).data)
    /\ EmptyLayer(2)

-----------------------------------------------------------------------------
(* C14 No partial file.                                                    *)

\* the with block of write() has the file f open
OpenNow(f) == f = filename /\ pc = "writing"

\* the part of C14 that holds: while the chunks of a file are generated,
\* whether generation ends or raises, no file is opened or written
GenerationWritesNothing == [][pc = "generate" => disk' = disk]_vars

\* C14: a file on disk that is not open is complete, whether the export
\* returned or aborted with an error: its header, every chunk the header
\* counts, and nothing missing.
NoPartialFile ==
    \A f \in DOMAIN disk : ~OpenNow(f) => HeaderLawOf(disk[f])

-----------------------------------------------------------------------------
(* C15 Loose and boundary edges.                                           *)

\* the edges of the mesh, in edge order, that belong to at most n polygons
EdgesOfAtMost(mesh, n) == SelectSeq(mesh.edges, LAMBDA e : LinkFaces(mesh, e) <= n)

\* the entries of the block res after those of the polygons are the 2-vertex
\* entries of the edges es, in order
SyntheticEntries(mesh, es) ==
    \E rd \in {RdPols(res, 5)} :
        /\ Len(rd) = Len(mesh.polygons) + Len(es)
        /\ \A i \in 1..Len(mesh.polygons) : rd[i] = Reverse(mesh.polygons[i].vertices)
        /\ \A k \in 1..Len(es) : rd[Len(mesh.polygons) + k] = <<es[k][1], es[k][2]>>

\* the mesh of one triangle [0, 1, 2] and its three edges
SingleTriangle(mesh) ==
    /\ Len(mesh.polygons) = 1
    /\ mesh.polygons[1].vertices = <<0, 1, 2>>
    /\ mesh.edges = PolygonEdges(<<0, 1, 2>>)

\* C15 as claimed: after the polygons the block holds one 2-vertex entry for
\* each loose or boundary edge (an edge of no face or of one face), so the
\* block of the single triangle ends with three such entries.
LooseAndBoundaryEdgeEntries ==
    pc = "return" =>
        /\ SyntheticEntries(arg.mesh, EdgesOfAtMost(arg.mesh, 1))
        /\ SingleTriangle(arg.mesh) => Len(RdPols(res, 5)) = 1 + 3

\* C15 as amended: after the polygons the block holds one 2-vertex entry for
\* each edge that belongs to no face, in edge order, and none for the edges
\* of faces; the block of the single triangle is the type, the entry of count
\* 3 with indices [2, 1, 0], and nothing else.
LooseEdgeEntries ==
    pc = "return" =>
        /\ SubSeq(res, 1, 4) = IF arg.subd THEN TagSUBD ELSE TagFACE
        /\ SyntheticEntries(arg.mesh, EdgesOfAtMost(arg.mesh, 0))
        /\ SingleTriangle(arg.mesh) =>
               SubSeq(res, 5, Len(res)) = <<0, 3, 0, 2, 0, 1, 0, 0>>

\* the triangle [0, 1, 2] with an edge 7-8 of no face: one polygon entry and
\* one 2-vertex entry
LooseEdgeWitness ==
    /\ pc = "return"
    /\ Len(arg.mesh.polygons) = 1
    /\ arg.mesh.polygons[1].vertices = <<0, 1, 2>>
    /\ arg.mesh.edges = PolygonEdges(<<0, 1, 2>>) \o <<<<7, 8>>>>
    /\ ~arg.subd
    /\ res = TagFACE \o <<0, 3, 0, 2, 0, 1, 0, 0>> \o <<0, 2, 0, 7, 0, 8>>

====
